---------------------------- MODULE Spec2Model ----------------------------
(***************************************************************************)
(* A model of the streaming XML tokenizer of src/tokenizer.go.             *)
(*                                                                         *)
(* A byte is a one-character string; a byte slice is a sequence of bytes.  *)
(* Buffer indices are the 0-based indices of the Go code: B(t, i) is       *)
(* t.buf[i] and Slice(s, a, b) is s[a:b].  The buffer is kept as its       *)
(* backing array (arr, of length cap(t.buf)) and its length (len), since   *)
(* reslicing in manageBuffer and Reset exposes bytes beyond the length.    *)
(*                                                                         *)
(* A run-time panic of the Go code (index or slice bounds out of range) is *)
(* an explicit outcome of the operators that model the faulting function.  *)
(***************************************************************************)
EXTENDS Integers, Sequences, FiniteSets, TLC

VARIABLES
    src,        \* the bytes the io.Reader t.r delivers
    srcEnd,     \* what the reader returns once src is used up: "EOF" or "ReadErr"
    rpos,       \* number of bytes of src the reader has delivered
    reads,      \* number of Read calls made on the reader
    options,    \* t.options
    arr,        \* backing array of t.buf
    len,        \* len(t.buf)
    cur,        \* t.cur
    n,          \* t.n
    err,        \* t.err
    token,      \* t.token, the shared token
    attrsCap,   \* cap(t.token.Attrs)
    given,      \* the option values handed to the last New or Reset
    prevErr,    \* the error returned by the call before the last one
    delivered,  \* stream offset just past the last bytes returned without error
    res,        \* what the last call returned to the client (its operation included)
    calls,      \* number of Token/RawToken calls made by the client
    since,      \* number of them made since the last New or Reset
    ended,      \* the last Reset came after a call had returned EOF or an error
    scan,       \* the position of a call that is run loop iteration by loop iteration
    allTok,     \* every call so far was Token
    crashed     \* a call panicked

vars == <<src, srcEnd, rpos, reads, options, arr, len, cur, n, err, token, attrsCap,
          given, prevErr, delivered, res, calls, since, ended,
          scan, allTok, crashed>>

---------------------------------------------------------------------------
(* Bounds of the model *)

\* the client makes at most this many calls
MaxCalls == 5

---------------------------------------------------------------------------
(* Program constants.  The source gives the two sizes in KiB (4 << 10 and  *)
(* 1000 << 10); the model drops the shift and counts them in bytes, so     *)
(* that buffers that fill their capacity and tokens that pass the limit    *)
(* are short byte sequences.  Every threshold of the code is a sum of      *)
(* buffer lengths and these sizes, so the code's cases are the same.       *)

defaultReadBufferSize == 4
autoGrowBufferMaxLimitSize == 1000
defaultAttrsBufferSize == 16

\* the zero byte of a freshly made buffer
NUL == "0"

WS == {" ", "\t", "\n", "\r"}

---------------------------------------------------------------------------
(* Byte slices *)

Min(S) == CHOOSE x \in S : \A y \in S : x <= y

\* s[a:b] with 0 <= a <= b <= len(s)
Slice(s, a, b) == SubSeq(s, a + 1, b)

\* s[a:]
From(s, a) == SubSeq(s, a + 1, Len(s))

\* bytes.IndexByte(s, c): 0-based index of the first c in s, or -1
IndexByte(s, c) ==
    LET hits == {i \in 1..Len(s) : s[i] = c}
    IN  IF hits = {} THEN -1 ELSE Min(hits) - 1

\* bytes.IndexAny(s, chars)
IndexAny(s, chars) ==
    LET hits == {i \in 1..Len(s) : s[i] \in chars}
    IN  IF hits = {} THEN -1 ELSE Min(hits) - 1

\* bytes.Count(s, []byte{c})
Count(s, c) == Cardinality({i \in 1..Len(s) : s[i] = c})

---------------------------------------------------------------------------
(* Errors.  An error value is its kind and, when Token has wrapped it with *)
(* "byte pos %d: %w", the byte position; errors.Is looks at the kind.      *)

NoErr == [kind |-> "nil", pos |-> -1]
Err(k) == [kind |-> k, pos |-> -1]
Wrap(e, p) == [kind |-> e.kind, pos |-> p]
IsNil(e) == e.kind = "nil"
ErrorsIs(e, k) == e.kind = k

---------------------------------------------------------------------------
(* The tokenizer as a value: the fields the scanner reads and writes *)

Tok == [options |-> options, arr |-> arr, len |-> len, cur |-> cur, n |-> n,
        err |-> err, token |-> token, attrsCap |-> attrsCap, rpos |-> rpos,
        reads |-> reads]

Cap(t) == Len(t.arr)
Buf(t) == SubSeq(t.arr, 1, t.len)
B(t, i) == t.arr[i + 1]

\* memmoveRemainingBytes that leaves t.cur as it is (without the effect of
\* line 310 on the field)
memmoveKeepCursor(t, pivot) ==
    IF pivot = 0
    THEN [t |-> t, cur |-> t.cur, last |-> t.len]
    ELSE LET k == t.len - pivot
             a == [i \in 1..Cap(t) |-> IF i <= k THEN t.arr[i + pivot] ELSE t.arr[i]]
             t2 == [t EXCEPT !.arr = a, !.len = k]
         IN  [t |-> t2, cur |-> 0, last |-> k]

\* a compaction that cuts the buffer down without moving the bytes
memmoveNoCopy(t, pivot) ==
    IF pivot = 0
    THEN [t |-> t, cur |-> t.cur, last |-> t.len]
    ELSE LET k == t.len - pivot
             t2 == [t EXCEPT !.len = k, !.cur = 0]
         IN  [t |-> t2, cur |-> 0, last |-> k]

\* memmoveRemainingBytes(pivot): the new tokenizer and the pair it returns
memmoveRemainingBytes(t, pivot) ==
    IF pivot = 0
    THEN [t |-> t, cur |-> t.cur, last |-> t.len]
    ELSE LET k == t.len - pivot
             a == [i \in 1..Cap(t) |-> IF i <= k THEN t.arr[i + pivot] ELSE t.arr[i]]
             t2 == [t EXCEPT !.arr = a, !.len = k, !.cur = 0]
         IN  [t |-> t2, cur |-> 0, last |-> k]

\* io.ReadAtLeast(t.r, p, 1) on a reader that hands out what it has:
\* the bytes read and the error
ReadAtLeast(t, room) ==
    LET avail == Len(src) - t.rpos
        k == IF avail < room THEN avail ELSE room
    IN  IF avail = 0
        THEN [data |-> <<>>, err |-> Err(srcEnd)]
        ELSE [data |-> SubSeq(src, t.rpos + 1, t.rpos + k), err |-> NoErr]

\* manageBuffer(): the new tokenizer and the error it returns
manageBuffer(t) ==
    LET growSize == t.len + t.options.readBufferSize
        fits == growSize <= Cap(t)
    IN  IF ~fits /\ growSize > t.options.autoGrowBufferMaxLimitSize
        THEN [t |-> t, err |-> Err("BufLimit")]
        ELSE LET base == IF fits THEN t.arr
                         ELSE [i \in 1..growSize |-> IF i <= t.len THEN t.arr[i] ELSE NUL]
                 start == t.len
                 end == IF fits THEN growSize ELSE Len(base)
                 rd == ReadAtLeast(t, end - start)
                 k == Len(rd.data)
                 a == [i \in 1..Len(base) |->
                          IF i > start /\ i <= start + k THEN rd.data[i - start] ELSE base[i]]
             IN  [t |-> [t EXCEPT !.arr = a, !.len = start + k, !.n = t.n + k,
                                  !.rpos = t.rpos + k, !.reads = t.reads + 1],
                  err |-> rd.err]

---------------------------------------------------------------------------
(* findTokenEnd: the index of the first byte after the token that starts   *)
(* at pivot, -1 when more data is needed, PanicIdx when the slice          *)
(* t.buf[left+1:right-1] has left+1 > right-1.                             *)

PanicIdx == -2

RECURSIVE findTokenEndFrom(_, _, _)
findTokenEndFrom(buf, pivot, left) ==
    LET p == IndexByte(From(buf, left), ">")
        right == left + p + 1
        kind == buf[pivot + 2]
        quoteRule ==
            IF Count(Slice(buf, left, right), "\"") % 2 = 0
            THEN right
            ELSE LET q == IndexByte(From(buf, right), "\"")
                 IN  IF q = -1 THEN -1
                     ELSE findTokenEndFrom(buf, pivot, right + q + 1)
    IN  IF p = -1 THEN -1
        ELSE IF kind = "?"
        THEN IF right >= pivot + 3 /\ buf[right - 1] = "?"
             THEN right
             ELSE findTokenEndFrom(buf, pivot, right)
        ELSE IF kind = "!"
        THEN IF Len(buf) > pivot + 4 /\ buf[pivot + 3] = "-" /\ buf[pivot + 4] = "-"
             THEN IF right >= pivot + 6 /\ buf[right - 2] = "-" /\ buf[right - 1] = "-"
                  THEN right
                  ELSE findTokenEndFrom(buf, pivot, right)
             ELSE IF left + 1 > right - 1
             THEN PanicIdx
             ELSE LET lt == IndexByte(Slice(buf, left + 1, right - 1), "<")
                  IN  IF lt # -1
                      THEN LET nested == findTokenEndFrom(buf, left + lt + 1, left + lt + 2)
                           IN  IF nested < 0 THEN nested
                               ELSE findTokenEndFrom(buf, pivot, nested)
                      ELSE quoteRule
        ELSE quoteRule

\* findTokenEnd that ends a processing instruction at its first >, whatever
\* the byte before it (without the test of line 216)
findTokenEndAnyGt(t, pivot) ==
    LET p == IndexByte(From(Buf(t), pivot + 1), ">")
    IN  IF B(t, pivot + 1) # "?" THEN findTokenEndFrom(Buf(t), pivot, pivot + 1)
        ELSE IF p = -1 THEN -1
        ELSE pivot + p + 2

\* findTokenEnd that ends the token at the first > whatever the quotes
\* (without lines 243-251)
findTokenEndFirstGt(t, pivot) ==
    LET p == IndexByte(From(Buf(t), pivot + 1), ">")
    IN  IF p = -1 THEN -1 ELSE pivot + p + 2

findTokenEnd(t, pivot) == findTokenEndFrom(Buf(t), pivot, pivot + 1)

---------------------------------------------------------------------------
(* parseCharData(pivot, pos): extends the token of an ordinary tag over    *)
(* the character data that follows it.  The new tokenizer, pivot and pos.  *)

CDataPrefix == <<"<", "!", "[", "C", "D", "A", "T", "A", "[">>
CDataSuffix == <<"]", "]", ">">>

\* what a refill leaves: the tokenizer with t.err set to the error of
\* manageBuffer, and the pair (cur, last) memmoveRemainingBytes returned
Refilled(mm, mb) ==
    [t |-> [mb.t EXCEPT !.err = mb.err], cur |-> mm.cur, last |-> mm.last,
     err |-> mb.err]

RefillAfter(mm) == Refilled(mm, manageBuffer(mm.t))

\* memmoveRemainingBytes(pivot) followed by t.err = t.manageBuffer()
Refill(t, pivot) == RefillAfter(memmoveRemainingBytes(t, pivot))

RECURSIVE cdataScan(_, _, _, _, _)
\* the inner loop from line 287 on, with t.buf[j] in the buffer
cdataAt(t, pivot, pos, j, k) ==
    IF k < Len(CDataPrefix)
    THEN IF B(t, j) # CDataPrefix[k + 1]
         THEN [t |-> t, pivot |-> pivot, pos |-> pos]
         ELSE cdataScan(t, pivot, pos, j + 1, k + 1)
    ELSE IF B(t, j) = ">" /\ Slice(Buf(t), j - 2, j + 1) = CDataSuffix
    THEN [t |-> t, pivot |-> pivot, pos |-> j]
    ELSE cdataScan(t, pivot, pos, j + 1, k)

\* lines 277-285: after the refill r, with pos already moved back
cdataRefilled(r, pos, k) ==
    IF ~IsNil(r.err)
    THEN [t |-> [r.t EXCEPT !.err = IF ErrorsIs(r.err, "EOF")
                                     THEN Err("UnexpectedEOF") ELSE r.err],
          pivot |-> r.cur, pos |-> pos]
    ELSE cdataAt(r.t, r.cur, pos, r.last, k)

\* pos = pos - (prevLast - len(t.buf)), the length taken after the memmove
cdataMoved(mm, pos, prevLast, k) ==
    cdataRefilled(RefillAfter(mm), pos - (prevLast - mm.t.len), k)

\* the inner loop (for j := i + 1; ; j++), entered with index j and k matched bytes
cdataScan(t, pivot, pos, j, k) ==
    IF j >= t.len
    THEN cdataMoved(memmoveRemainingBytes(t, pivot), pos, t.len, k)
    ELSE cdataAt(t, pivot, pos, j, k)

RECURSIVE charScan(_, _, _, _)
\* the outer loop from line 267 on, with t.buf[i] in the buffer
charAt(t, pivot, pos, i) ==
    IF B(t, i) # "<"
    THEN charScan(t, pivot, pos, i + 1)
    ELSE cdataScan(t, pivot, i - 1, i + 1, 1)

\* lines 261-265: after the refill r
charRefilled(r) ==
    IF ~IsNil(r.err)
    THEN [t |-> r.t, pivot |-> r.cur, pos |-> r.last - 1]
    ELSE charAt(r.t, r.cur, r.last - 1, r.last)

\* the outer loop (for i := pos; ; i++), entered with index i
charScan(t, pivot, pos, i) ==
    IF i >= t.len
    THEN charRefilled(Refill(t, pivot))
    ELSE charAt(t, pivot, pos, i)

parseCharData(t, pivot, pos) == charScan(t, pivot, pos, pos)

---------------------------------------------------------------------------
(* trim, trimPrefix, trimSuffix *)

RECURSIVE trimPrefixFrom(_, _, _)
trimPrefixFrom(b, i, start) ==
    IF i >= Len(b) THEN From(b, start)
    ELSE IF b[i + 1] = "\r"
    THEN IF i + 1 < Len(b) /\ b[i + 2] = "\n"
         THEN trimPrefixFrom(b, i + 2, start + 2)
         ELSE trimPrefixFrom(b, i + 1, start)
    ELSE IF b[i + 1] \in {"\n", " ", "\t"}
    THEN trimPrefixFrom(b, i + 1, start + 1)
    ELSE From(b, start)

trimPrefix(b) == trimPrefixFrom(b, 0, 0)

RECURSIVE trimSuffixFrom(_, _, _)
trimSuffixFrom(b, i, end) ==
    IF i < 0 THEN Slice(b, 0, end)
    ELSE IF b[i + 1] = "\n"
    THEN IF i - 1 > 0 /\ b[i] = "\r"
         THEN trimSuffixFrom(b, i - 1, end - 2)
         ELSE trimSuffixFrom(b, i - 1, end - 1)
    ELSE IF b[i + 1] \in {" ", "\t"}
    THEN trimSuffixFrom(b, i - 1, end - 1)
    ELSE Slice(b, 0, end)

trimSuffix(b) == trimSuffixFrom(b, Len(b) - 1, Len(b))

trim(b) == trimSuffix(trimPrefix(b))

---------------------------------------------------------------------------
(* RawToken.  The outcome of a call: the new tokenizer, the bytes and the  *)
(* error returned, whether the call panicked, and the stream offsets       *)
(* [beg, end) of the bytes t.buf[pivot:pos] the returned slice is cut from *)
(* (buffer index i holds stream byte i + t.n - len(t.buf)).                *)

Outcome(t, bytes, e, pivot, pos) ==
    [t |-> t, bytes |-> bytes, err |-> e, panic |-> FALSE,
     beg |-> pivot + t.n - t.len, end |-> pos + t.n - t.len]

\* a return of no bytes: return nil, t.err
NoBytes(t, e) ==
    [t |-> t, bytes |-> <<>>, err |-> e, panic |-> FALSE, beg |-> 0, end |-> 0]

Panicked(t) ==
    [t |-> t, bytes |-> <<>>, err |-> NoErr, panic |-> TRUE, beg |-> 0, end |-> 0]

RECURSIVE findOpen(_)
\* lines 165-170: after the refill r
findOpenRefilled(r) ==
    IF IsNil(r.err) THEN findOpen(r.t)
    ELSE [t |-> r.t, pivot |-> -1]

\* the first loop: the tokenizer and the index of the opening <, or -1 on error
findOpen(t) ==
    LET p == IndexByte(From(Buf(t), t.cur), "<")
    IN  IF p # -1 THEN [t |-> t, pivot |-> t.cur + p]
        ELSE findOpenRefilled(Refill(t, t.cur))

\* the return of lines 195-197 without t.cur = pos
FoundNoAdvance(t, pivot, pos) ==
    Outcome(t, trim(Slice(Buf(t), pivot, pos)), NoErr, pivot, pos)

\* lines 195-197: the token is t.buf[pivot:pos]
Found(t, pivot, pos) ==
    Outcome([t EXCEPT !.cur = pos], trim(Slice(Buf(t), pivot, pos)), NoErr, pivot, pos)

\* lines 191-192: pivot, pos = t.parseCharData(pivot, pos); pos++
FoundCharData(pc) == Found(pc.t, pc.pivot, pc.pos + 1)

RECURSIVE findClose(_, _)
\* lines 179-187: after the refill r
findCloseRefilled(r) ==
    LET e == IF ErrorsIs(r.err, "EOF") THEN Err("UnexpectedEOF") ELSE r.err
    IN  IF IsNil(r.err) THEN findClose(r.t, r.cur)
        ELSE Outcome([r.t EXCEPT !.err = e], Slice(Buf(r.t), r.cur, r.last), e,
                     r.cur, r.last)

\* lines 178-197: with pos the result of findTokenEnd(pivot)
findCloseAt(t, pivot, pos) ==
    IF pos = PanicIdx THEN Panicked(t)
    ELSE IF pos = -1 THEN findCloseRefilled(Refill(t, pivot))
    ELSE IF B(t, pivot + 1) \in {"?", "!"} THEN Found(t, pivot, pos)
    ELSE FoundCharData(parseCharData(t, pivot, pos))

\* the second loop, entered with the index of the opening <
findClose(t, pivot) == findCloseAt(t, pivot, findTokenEnd(t, pivot))

\* lines 160-198: with o the outcome of the first loop
RawTokenFrom(o) ==
    IF o.pivot = -1 THEN NoBytes(o.t, o.t.err)
    ELSE findClose(o.t, o.pivot)

\* RawToken without its check of t.err (lines 157-159)
RawTokenNoSticky(t) == RawTokenFrom(findOpen(t))

RawToken(t) ==
    IF ~IsNil(t.err) THEN NoBytes(t, t.err)
    ELSE RawTokenFrom(findOpen(t))

---------------------------------------------------------------------------
(* Token: the decomposition of a raw token.  Each consume function gives   *)
(* the token so far, the bytes left and whether it panicked.               *)

NoName == [Prefix |-> <<>>, Local |-> <<>>, Full |-> <<>>]

\* the zero Token, which is also t.token after clearToken
ZeroToken == [Name |-> NoName, Attrs |-> <<>>, Data |-> <<>>,
              SelfClosing |-> FALSE, IsEndElement |-> FALSE]

\* the split of a name around its first ':' (consumeTagName, consumeAttrs)
\* the split of a name around its last ':'
SplitNameLast(full) ==
    LET hits == {i \in 1..Len(full) : full[i] = ":"}
        colon == IF hits = {} THEN -1 ELSE (CHOOSE i \in hits : \A j \in hits : j <= i) - 1
    IN  IF colon = -1
        THEN [Prefix |-> <<>>, Local |-> full, Full |-> full]
        ELSE [Prefix |-> Slice(full, 0, colon), Local |-> From(full, colon + 1),
              Full |-> full]

SplitName(full) ==
    LET colon == IndexByte(full, ":")
    IN  IF colon = -1
        THEN [Prefix |-> <<>>, Local |-> full, Full |-> full]
        ELSE [Prefix |-> Slice(full, 0, colon), Local |-> From(full, colon + 1),
              Full |-> full]

Step(tok, b) == [tok |-> tok, b |-> b, panic |-> FALSE]
StepPanic(tok) == [tok |-> tok, b |-> <<>>, panic |-> TRUE]

\* consumeNonTagIdentifier that knows <? only (without the second test of line 350)
consumeNonTagIdentifierPI(tok, b) ==
    IF Len(b) < 2 \/ Slice(b, 0, 2) # <<"<", "?">>
    THEN Step(tok, b)
    ELSE Step([tok EXCEPT !.Data = b, !.SelfClosing = TRUE], <<>>)

consumeNonTagIdentifier(tok, b) ==
    IF Len(b) < 2 \/ (Slice(b, 0, 2) # <<"<", "?">> /\ Slice(b, 0, 2) # <<"<", "!">>)
    THEN Step(tok, b)
    ELSE Step([tok EXCEPT !.Data = b, !.SelfClosing = TRUE], <<>>)

\* consumeTagName that leaves the / before the > in the name (without
\* lines 365-367)
consumeTagNameKeepSlash(tok, b0) ==
    LET b1 == From(b0, 1)
        isEnd == b1[1] = "/"
        b == IF isEnd THEN From(b1, 1) ELSE b1
        tok1 == IF isEnd THEN [tok EXCEPT !.IsEndElement = TRUE] ELSE tok
        pos == IndexAny(b, {">", " ", "\t", "\r", "\n"})
    IN  IF Len(b1) = 0 THEN StepPanic(tok)
        ELSE IF pos = -1 THEN StepPanic(tok1)
        ELSE Step([tok1 EXCEPT !.Name = SplitName(trim(Slice(b, 0, pos)))],
                  From(b, pos))

consumeTagName(tok, b0) ==
    LET b1 == From(b0, 1)
        isEnd == b1[1] = "/"
        b == IF isEnd THEN From(b1, 1) ELSE b1
        tok1 == IF isEnd THEN [tok EXCEPT !.IsEndElement = TRUE] ELSE tok
        pos0 == IndexAny(b, {">", " ", "\t", "\r", "\n"})
        back == b[pos0 + 1] = ">" /\ Len(b) > 1
        pos == IF back /\ b[pos0] = "/" THEN pos0 - 1 ELSE pos0
    IN  IF Len(b1) = 0 THEN StepPanic(tok)                  \* b[0]
        ELSE IF pos0 = -1 THEN StepPanic(tok1)              \* b[pos]
        ELSE IF back /\ pos0 = 0 THEN StepPanic(tok1)       \* b[pos-1]
        ELSE Step([tok1 EXCEPT !.Name = SplitName(trim(Slice(b, 0, pos)))],
                  From(b, pos))

RECURSIVE consumeAttrs(_, _)
consumeAttrs(tok, b) ==
    LET pos == IndexAny(b, {"=", ">"})
        full == trim(Slice(b, 0, pos))
        b1 == From(b, pos + 1)
        q == IndexByte(b1, "\"")
        width == IndexByte(From(b1, q + 1), "\"")
        value == Slice(b1, q + 1, q + width + 1)
        attr == [Name |-> SplitName(full), Value |-> value]
    IN  IF pos = -1 THEN StepPanic(tok)                     \* b[pos]
        ELSE IF b[pos + 1] = ">"
        THEN Step(IF pos > 0 /\ b[pos] = "/"
                  THEN [tok EXCEPT !.SelfClosing = TRUE] ELSE tok,
                  From(b, pos + 1))
        ELSE IF width = -1 THEN StepPanic(tok)              \* b[pos+1 : pos+width+1]
        ELSE consumeAttrs([tok EXCEPT !.Attrs = Append(@, attr)],
                          From(b1, q + width + 2))

\* consumeCharData that leaves the ]]> of a CDATA section (without lines 416-418)
consumeCharDataKeepSuffix(tok, b0) ==
    LET b1 == trimPrefix(b0)
        b2 == IF Len(b1) >= Len(CDataPrefix)
                 /\ Slice(b1, 0, Len(CDataPrefix)) = CDataPrefix
              THEN From(b1, Len(CDataPrefix)) ELSE b1
    IN  [tok EXCEPT !.Data = trim(b2)]

consumeCharData(tok, b0) ==
    LET b1 == trimPrefix(b0)
        b2 == IF Len(b1) >= Len(CDataPrefix)
                 /\ Slice(b1, 0, Len(CDataPrefix)) = CDataPrefix
              THEN From(b1, Len(CDataPrefix)) ELSE b1
        end == Len(b2) - Len(CDataSuffix)
        b3 == IF end >= 0 /\ From(b2, end) = CDataSuffix THEN Slice(b2, 0, end) ELSE b2
    IN  [tok EXCEPT !.Data = trim(b3)]

\* line 138, after consumeAttrs
DecomposeData(s) ==
    IF s.panic THEN s ELSE Step(consumeCharData(s.tok, s.b), <<>>)

\* line 137, after consumeTagName
DecomposeAttrs(s) ==
    IF s.panic THEN s ELSE DecomposeData(consumeAttrs(s.tok, s.b))

\* lines 135-136, after consumeNonTagIdentifier
DecomposeTag(s) ==
    IF Len(s.b) = 0 THEN s ELSE DecomposeAttrs(consumeTagName(s.tok, s.b))

\* lines 132-149 of Token: the token made of the raw bytes b
Decompose(b) == DecomposeTag(consumeNonTagIdentifier(ZeroToken, b))

\* the outcome of Token: that of its call of RawToken (raw, rawErr, beg, end),
\* with the token and the error Token returns
TokenOutcome(o, tok, e, panic) ==
    [t |-> o.t, raw |-> o.bytes, rawErr |-> o.err, beg |-> o.beg, end |-> o.end,
     token |-> tok, err |-> e, panic |-> panic]

RECURSIVE GrowCap(_, _)
\* cap(t.token.Attrs) once the appends of line 403 have made it k long: an
\* append to a full slice doubles its capacity
GrowCap(c, k) == IF k <= c THEN c ELSE GrowCap(2 * c, k)

\* lines 132-149: the shared token is set to the decomposition d and returned
TokenDecomposed(o, d) ==
    TokenOutcome([o EXCEPT !.t.token = d.tok,
                           !.t.attrsCap = GrowCap(@, Len(d.tok.Attrs))],
                 d.tok, NoErr, d.panic)

\* lines 122-149: with o the outcome of RawToken
TokenOf(o) ==
    LET e == IF ~IsNil(o.err) /\ ~ErrorsIs(o.err, "EOF")
             THEN Wrap(o.err, o.t.n) ELSE o.err
    IN  IF o.panic THEN TokenOutcome(o, ZeroToken, NoErr, TRUE)
        ELSE IF ~IsNil(o.err) /\ (Len(o.bytes) = 0 \/ ErrorsIs(e, "UnexpectedEOF"))
        THEN TokenOutcome(o, ZeroToken, e, FALSE)
        ELSE TokenDecomposed([o EXCEPT !.t.err = IF IsNil(o.err) THEN o.t.err ELSE e],
                             Decompose(o.bytes))

\* Token returning the shared token t.token with the recorded error
\* instead of its zero result (line 118)
TokenStale(t) ==
    IF ~IsNil(t.err)
    THEN TokenOutcome(NoBytes(t, NoErr), t.token, t.err, FALSE)
    ELSE TokenOf(RawToken(t))

\* the outcome o with the cursor put back to c
CursorKept(o, c) == [o EXCEPT !.t.cur = c]

\* Token scanning with a cursor of its own: the cursor RawToken goes by is
\* left where it was (without the effect of line 196 on t.cur)
TokenOwnCursor(t) ==
    IF ~IsNil(t.err)
    THEN TokenOutcome(NoBytes(t, NoErr), ZeroToken, t.err, FALSE)
    ELSE CursorKept(TokenOf(RawToken(t)), t.cur)

Token(t) ==
    IF ~IsNil(t.err)
    THEN TokenOutcome(NoBytes(t, NoErr), ZeroToken, t.err, FALSE)
    ELSE TokenOf(RawToken(t))

---------------------------------------------------------------------------
(* New and Reset *)

WithReadBufferSize(size) == IF size <= 0 THEN defaultReadBufferSize ELSE size
WithAutoGrowBufferMaxLimitSize(size) == IF size <= 0 THEN autoGrowBufferMaxLimitSize ELSE size
WithAttrBufferSize(size) == IF size <= 0 THEN defaultAttrsBufferSize ELSE size

\* t.options after Reset(r, WithReadBufferSize(rs), WithAutoGrowBufferMaxLimitSize(ml),
\* WithAttrBufferSize(as))
\* the options without the raise of the limit to the read size (lines 100-102)
ResetOptionsNoRaise(rs, ml, as) ==
    [readBufferSize |-> WithReadBufferSize(rs),
     autoGrowBufferMaxLimitSize |-> WithAutoGrowBufferMaxLimitSize(ml),
     attrsBufferSize |-> WithAttrBufferSize(as)]

ResetOptions(rs, ml, as) ==
    LET size == WithReadBufferSize(rs)
        limit == WithAutoGrowBufferMaxLimitSize(ml)
    IN  [readBufferSize |-> size,
         autoGrowBufferMaxLimitSize |-> IF size > limit THEN size ELSE limit,
         attrsBufferSize |-> WithAttrBufferSize(as)]

\* t.buf after Reset, as backing array and length, from the backing array before
ResetBuf(old, size) ==
    IF Len(old) >= size + defaultReadBufferSize
    THEN [arr |-> old, len |-> size]
    ELSE [arr |-> [i \in 1..(size + defaultReadBufferSize) |-> NUL], len |-> size]

\* t.token.Attrs after Reset (lines 97-99), as the slice and its capacity
ResetAttrs(attrs, c, size) ==
    IF c < size THEN [attrs |-> <<>>, cap |-> size] ELSE [attrs |-> attrs, cap |-> c]

\* the tokenizer New(r, opts...) returns, for option values rs, ml, as
NewTokWith(rs, ml, as) ==
    LET o == ResetOptions(rs, ml, as)
        b == ResetBuf(<<>>, o.readBufferSize)
    IN  [options |-> o, arr |-> b.arr, len |-> b.len, cur |-> 0, n |-> 0,
         err |-> NoErr, token |-> ZeroToken,
         attrsCap |-> ResetAttrs(<<>>, 0, o.attrsBufferSize).cap,
         rpos |-> 0, reads |-> 0]

\* the tokenizer New(r, opts...) returns, for option values rs, ml
NewTok(rs, ml) == NewTokWith(rs, ml, 0)

NoResult == [op |-> "none", raw |-> <<>>, rawErr |-> NoErr, beg |-> 0, end |-> 0,
             from |-> 0, token |-> ZeroToken, err |-> NoErr, panic |-> FALSE]

\* the option values handed to New or Reset (0: the option is left out), and
\* the number of times the tokenizer has been Reset
Given(resets, rs, ml, as) == [resets |-> resets, rs |-> rs, ml |-> ml, as |-> as]

\* no call is under way; at is the tokenizer as the last call found it
NotScanning(t) ==
    [pc |-> "idle", op |-> "none", pivot |-> 0, pos |-> 0, i |-> 0, j |-> 0, k |-> 0,
     turn |-> 0, at |-> t]

\* the state after New(r, opts...) on a reader that delivers input and then ending
NewWith(input, ending, rs, ml, as) ==
    /\ src = input
    /\ srcEnd = ending
    /\ rpos = 0
    /\ reads = 0
    /\ options = NewTokWith(rs, ml, as).options
    /\ arr = NewTokWith(rs, ml, as).arr
    /\ len = NewTokWith(rs, ml, as).len
    /\ cur = 0
    /\ n = 0
    /\ err = NoErr
    /\ token = ZeroToken
    /\ attrsCap = NewTokWith(rs, ml, as).attrsCap
    /\ given = Given(0, rs, ml, as)
    /\ prevErr = NoErr
    /\ delivered = 0
    /\ res = NoResult
    /\ calls = 0
    /\ since = 0
    /\ ended = FALSE
    /\ scan = NotScanning(NewTokWith(rs, ml, as))
    /\ allTok = TRUE
    /\ crashed = FALSE

New(input, ending, rs, ml) == NewWith(input, ending, rs, ml, 0)

---------------------------------------------------------------------------
(* The client's calls *)

Install(t) ==
    /\ arr' = t.arr
    /\ len' = t.len
    /\ cur' = t.cur
    /\ n' = t.n
    /\ err' = t.err
    /\ token' = t.token
    /\ attrsCap' = t.attrsCap
    /\ rpos' = t.rpos
    /\ reads' = t.reads

\* stream offset of the byte at t.cur, where the next scan starts
ScanFrom(t) == IF t.cur + t.n - t.len < 0 THEN 0 ELSE t.cur + t.n - t.len

\* the call op, whose scan started at stream offset from, returns with outcome o
ReturnFrom(op, o, from) ==
    /\ Install(o.t)
    /\ res' = [op |-> op, raw |-> o.raw, rawErr |-> o.rawErr, beg |-> o.beg,
               end |-> o.end, from |-> from, token |-> o.token,
               err |-> o.err, panic |-> o.panic]
    /\ delivered' = IF ~o.panic /\ Len(o.raw) > 0 /\ IsNil(o.err)
                    THEN o.end ELSE delivered
    /\ prevErr' = res.err
    /\ crashed' = o.panic
    /\ calls' = calls + 1
    /\ since' = since + 1

\* the call op returns with outcome o
Return(op, o) == ReturnFrom(op, o, ScanFrom(Tok))

\* RawToken's outcome in the shape of Token's: no token, the error as returned
RawOutcome(o) == TokenOutcome(o, ZeroToken, o.err, o.panic)

CallRawToken ==
    /\ ~crashed
    /\ calls < MaxCalls
    /\ Return("RawToken", RawOutcome(RawToken(Tok)))
    /\ allTok' = FALSE
    /\ UNCHANGED <<src, srcEnd, options, given, ended, scan>>

CallToken ==
    /\ ~crashed
    /\ calls < MaxCalls
    /\ Return("Token", Token(Tok))
    /\ UNCHANGED <<src, srcEnd, options, given, ended, scan, allTok>>

Next == CallRawToken \/ CallToken

---------------------------------------------------------------------------
(* The inputs of the general specification: a head of complete constructs  *)
(* followed by a tail that may be cut off.                                 *)

Heads ==
    { <<>>,
      <<"t">>,
      <<"<", "a", ">">>,
      <<"<", "a", ">", "t", "<", "/", "a", ">">>,
      <<"<", "?", "p", "?", ">">>,
      <<"<", "!", "-", "-", "c", "-", "-", ">">> }

Tails ==
    { <<>>,
      <<"<">>,
      <<"<", "b">>,
      <<"<", "b", " ", "\"">>,
      <<"<", "!">>,
      <<"<", "!", "-", "-", "c">>,
      <<"<", "?", "p">>,
      <<"<", "b", " ", "c", "=", "\"">>,
      <<"t">>,
      <<"<", "b", ">">>,
      <<"<", "b", ">", "t", "t", "t", "t">>,
      <<"<", "b", "b", "b", "b", "b", "b", ">">>,
      <<"<", "!", "[", "C", "D", "A", "T", "A", "[", "x">>,
      <<"<", "b", "/", ">">>,
      <<"<", "b", ">", "t", "<">>,
      <<"<", "b", ">", "<", "!", "[", "C", "D", "A", "T", "A", "[", "x">> }

Inputs == {h \o t : h \in Heads, t \in Tails}

\* the values given to WithReadBufferSize and WithAutoGrowBufferMaxLimitSize
\* (0: the default)
ReadSizes == {1, 3, 8}
MaxLimits == {0, 3, 6}

Init ==
    \E input \in Inputs, ending \in {"EOF", "ReadErr"}, rs \in ReadSizes, ml \in MaxLimits :
        New(input, ending, rs, ml)

Spec == Init /\ [][Next]_vars

---------------------------------------------------------------------------
(* Sticky errors *)

\* C1: once a call has returned an error other than EOF, the next call returns
\* an error of the same kind, reads nothing from the source and leaves the
\* buffer, the cursor and the byte counter as they are (and so does every
\* later call, its predecessor having returned such an error).
C1_StickyError ==
    [][(res.op # "none" /\ res.err.kind \notin {"nil", "EOF"})
         => /\ res'.err.kind = res.err.kind
            /\ ~res'.panic
            /\ reads' = reads /\ rpos' = rpos
            /\ arr' = arr /\ len' = len /\ cur' = cur /\ n' = n]_vars

\* a call that follows a call that returned a read error, with bytes still
\* in the buffer that a new scan would find
C1_Witness ==
    /\ prevErr.kind = "ReadErr" /\ res.err.kind = "ReadErr"
    /\ len > 0 /\ arr[1] = "<"

\* C2: after a call has returned plain EOF, the next call returns plain EOF
\* again, with no bytes and no token, and does not panic.
C2_StickyEOF ==
    prevErr = Err("EOF")
        => /\ res.err = Err("EOF")
           /\ res.raw = <<>>
           /\ res.token = ZeroToken
           /\ ~res.panic

\* Token called after EOF while the shared token still holds an earlier token
C2_Witness ==
    /\ prevErr = Err("EOF") /\ res.err = Err("EOF")
    /\ res.op = "Token" /\ token # ZeroToken

---------------------------------------------------------------------------
(* A source that ends inside a construct *)

\* the source holds a < at or after stream offset k
OpenAfter(k) == \E i \in (k + 1)..Len(src) : src[i] = "<"

\* C3: when the source ends after a < and before that construct's terminator,
\* the first call that reports it returns ErrUnexpectedEOF, never plain EOF;
\* RawToken returns with it the bytes from that < to the end of the source,
\* and Token returns with it no token.
C3_UnexpectedEOF ==
    /\ (srcEnd = "EOF" /\ res.err = Err("EOF")) => ~OpenAfter(delivered)
    /\ (res.err.kind = "UnexpectedEOF" /\ prevErr.kind = "nil")
         => /\ OpenAfter(delivered)
            /\ res.op = "RawToken"
                 => /\ res.raw # <<>>
                    /\ res.raw[1] = "<"
                    /\ res.raw = From(src, Len(src) - Len(res.raw))
            /\ res.op = "Token" => res.token = ZeroToken

---------------------------------------------------------------------------
(* Independence of the read buffer size *)

\* the read buffer sizes compared: 1, 2, a size larger than every input, and
\* a size more than half the default buffer limit
CompareSizes == {1, 2, 20, 600}

SizesInit ==
    \E input \in Inputs, ending \in {"EOF", "ReadErr"}, rs \in CompareSizes :
        New(input, ending, rs, 0)

SpecSizes == SizesInit /\ [][Next]_vars

RECURSIVE RefAfter(_)
\* the tokenizer New(r, WithReadBufferSize(1)) on the same source, after k calls of Token
RefAfter(k) == IF k = 0 THEN NewTok(1, 0) ELSE Token(RefAfter(k - 1)).t

\* the outcomes a and b of Token give the client the same (token, error)
SameResult(a, b) ==
    /\ a.panic = b.panic
    /\ ~a.panic => (a.token = b.token /\ a.err = b.err)

\* C4: with the default buffer limit, which every token of the inputs fits,
\* the k-th call of Token returns the same (token, error) as the k-th call of
\* Token on a tokenizer that reads the same source with read buffer size 1.
C4_ReadSizeIndependent ==
    (allTok /\ calls >= 1) => SameResult(Token(RefAfter(calls - 1)), res)

---------------------------------------------------------------------------
(* Leaf elements: <name>TEXT</name> *)

LeafNames == {<<"a">>, <<"p", ":", "n">>}

\* the bytes of TEXT: no <, with whitespace, a lone CR and > among them
TextBytes == {"t", " ", "\n", "\r", ">"}

\* the longest TEXT
MaxText == 3

Texts == UNION {[1..k -> TextBytes] : k \in 1..MaxText}

Leaf(name, text) == <<"<">> \o name \o <<">">> \o text \o <<"<", "/">> \o name \o <<">">>

LeafInit ==
    \E name \in LeafNames, text \in Texts, rs \in ReadSizes :
        New(Leaf(name, text), "EOF", rs, 0)

SpecLeaf == LeafInit /\ [][Next]_vars

\* name and TEXT of the source <name>TEXT</name>
LeafName == SubSeq(src, 2, IndexByte(src, ">"))
LeafText == SubSeq(src, IndexByte(src, ">") + 2, Len(src) - Len(LeafName) - 3)

RECURSIVE TrimLeft(_)
\* s without leading space, tab, LF and CRLF
TrimLeft(s) ==
    IF Len(s) >= 2 /\ s[1] = "\r" /\ s[2] = "\n" THEN TrimLeft(SubSeq(s, 3, Len(s)))
    ELSE IF Len(s) >= 1 /\ s[1] \in {" ", "\t", "\n"} THEN TrimLeft(Tail(s))
    ELSE s

RECURSIVE TrimRight(_)
\* s without trailing space, tab, LF and CRLF
TrimRight(s) ==
    IF Len(s) >= 2 /\ s[Len(s) - 1] = "\r" /\ s[Len(s)] = "\n"
    THEN TrimRight(SubSeq(s, 1, Len(s) - 2))
    ELSE IF Len(s) >= 1 /\ s[Len(s)] \in {" ", "\t", "\n"}
    THEN TrimRight(SubSeq(s, 1, Len(s) - 1))
    ELSE s

LeafStart(name, data) ==
    [Name |-> SplitName(name), Attrs |-> <<>>, Data |-> data,
     SelfClosing |-> FALSE, IsEndElement |-> FALSE]

LeafEnd(name) ==
    [Name |-> SplitName(name), Attrs |-> <<>>, Data |-> <<>>,
     SelfClosing |-> FALSE, IsEndElement |-> TRUE]

\* C5: on <name>TEXT</name> the first call returns the span <name>TEXT
\* (trimmed at its end, as spans are) and, for Token, the start token of name
\* with Data = TEXT without its edge whitespace; the second call returns
\* </name> and the end token of name; every later call returns EOF.
C5_LeafThenEnd ==
    /\ ~res.panic
    /\ calls = 1
         => /\ IsNil(res.err)
            /\ res.raw = TrimRight(<<"<">> \o LeafName \o <<">">> \o LeafText)
            /\ res.op = "Token"
                 => res.token = LeafStart(LeafName, TrimRight(TrimLeft(LeafText)))
    /\ calls = 2
         => /\ IsNil(res.err)
            /\ res.raw = <<"<", "/">> \o LeafName \o <<">">>
            /\ res.op = "Token" => res.token = LeafEnd(LeafName)
    /\ calls >= 3
         => /\ res.err = Err("EOF")
            /\ res.raw = <<>>
            /\ res.token = ZeroToken

---------------------------------------------------------------------------
(* Attribute values that hold > *)

\* the longest attribute value
MaxValue == 2

\* attribute values: any number of > among other bytes, < included
Values == UNION {[1..k -> {"x", ">", "<"}] : k \in 0..MaxValue}

\* one attribute b, or two attributes b (of at most one byte) and p:c
AttrLists ==
    {<<[name |-> <<"b">>, value |-> v]>> : v \in Values}
    \cup {<<[name |-> <<"b">>, value |-> v], [name |-> <<"p", ":", "c">>, value |-> w]>> :
            v \in {x \in Values : Len(x) <= 1}, w \in Values}

RECURSIVE AttrBytes(_)
\* the bytes  name="value"  of each attribute of the list, a space before each
AttrBytes(as) ==
    IF as = <<>> THEN <<>>
    ELSE <<" ">> \o as[1].name \o <<"=", "\"">> \o as[1].value \o <<"\"">>
             \o AttrBytes(Tail(as))

\* the tag <a name="value" ...>
TagOf(as) == <<"<", "a">> \o AttrBytes(as) \o <<">">>

\* what follows the tag: nothing, or text and the end tag
AfterTag == {<<>>, <<"t", "<", "/", "a", ">">>}

AttrsInit ==
    \E as \in AttrLists, after \in AfterTag, rs \in ReadSizes :
        New(TagOf(as) \o after, "EOF", rs, 0)

SpecAttrs == AttrsInit /\ [][Next]_vars

\* the attributes Token is to report for the list
AttrsOf(as) == [i \in 1..Len(as) |-> [Name |-> SplitName(as[i].name), Value |-> as[i].value]]

\* C6: the first call on a source that starts with the tag <a name="value" ...>
\* returns the span up to the > that closes the tag (with the text after it),
\* however many > the values hold, and Token returns one token of name a whose
\* attribute values are the values, > included.
C6_QuotedGt ==
    calls = 1 =>
    \A as \in AttrLists, after \in AfterTag :
        src = TagOf(as) \o after
            => /\ ~res.panic
               /\ IsNil(res.err)
               /\ res.raw = TagOf(as) \o (IF after = <<>> THEN <<>> ELSE <<"t">>)
               /\ res.op = "Token"
                    => /\ res.token.Name = SplitName(<<"a">>)
                       /\ res.token.Attrs = AttrsOf(as)
                       /\ res.token.Data = (IF after = <<>> THEN <<>> ELSE <<"t">>)
                       /\ ~res.token.IsEndElement

\* Token has returned the token of a tag with two values that hold >
C6_Witness ==
    /\ calls = 1 /\ res.op = "Token" /\ IsNil(res.err)
    /\ Len(res.token.Attrs) = 2
    /\ res.token.Attrs[1].Value = <<">">>
    /\ res.token.Attrs[2].Value = <<">", "<">>
    /\ res.token.Data = <<"t">>

---------------------------------------------------------------------------
(* <! constructs with nested constructs *)

\* nested constructs: a declaration, comments (one holding < and >) and
\* declarations with a quoted > or <
NestedItems ==
    { <<"<", "!", "a", ">">>,
      <<"<", "!", "-", "-", "c", "-", "-", ">">>,
      <<"<", "!", "-", "-", "<", "a", ">", "-", "-", ">">>,
      <<"<", "!", "e", " ", "\"", ">", "\"", ">">>,
      <<"<", "!", "e", " ", "\"", "<", "\"", ">">> }

\* the outer construct opens with one of these and closes with its partner
Brackets ==
    { [open |-> <<"<", "!", "D", "[">>, close |-> <<"]", ">">>],
      [open |-> <<"<", "!", "D">>, close |-> <<">">>],
      [open |-> <<"<", "!", "D", " ", "[", " ">>, close |-> <<" ", "]", " ", ">">>] }

\* a <! construct that holds one or two nested constructs
Declarations ==
    {b.open \o i \o j \o b.close : b \in Brackets, i \in NestedItems,
                                   j \in NestedItems \cup {<<>>}}

\* what follows the construct: nothing, or a tag
AfterDecl == {<<>>, <<"<", "r", "/", ">">>}

DeclInit ==
    \E d \in Declarations, after \in AfterDecl, rs \in ReadSizes :
        New(d \o after, "EOF", rs, 0)

SpecDecl == DeclInit /\ [][Next]_vars

\* the token of a <? or <! construct: its bytes as Data
NonTag(bytes) ==
    [Name |-> NoName, Attrs |-> <<>>, Data |-> bytes,
     SelfClosing |-> TRUE, IsEndElement |-> FALSE]

\* C7: the first call on a source that starts with a <! construct that is
\* not a comment and holds nested constructs returns the whole construct, up
\* to and including its outer closing >, as one span, and Token returns it as
\* one non-tag token.
C7_NestedDecl ==
    calls = 1 =>
    \A d \in Declarations, after \in AfterDecl :
        src = d \o after
            => /\ ~res.panic
               /\ IsNil(res.err)
               /\ res.raw = d
               /\ res.op = "Token" => res.token = NonTag(d)

---------------------------------------------------------------------------
(* Comments *)

\* the bytes of a comment's body
CommentBytes == {"c", "-", ">", "<", "\""}

\* the longest comment body
MaxBody == 3

Bodies == UNION {[1..k -> CommentBytes] : k \in 0..MaxBody}

CommentOpen == <<"<", "!", "-", "-">>
CommentClose == <<"-", "-", ">">>

\* what follows the comment: nothing, or a tag
AfterComment == {<<>>, <<"<", "r", "/", ">">>}

CommentInit ==
    \E body \in Bodies, after \in AfterComment, rs \in ReadSizes :
        New(CommentOpen \o body \o CommentClose \o after, "EOF", rs, 0)

SpecComment == CommentInit /\ [][Next]_vars

\* number of bytes of the comment the source starts with: up to the first >
\* that follows -- beyond the opening <!--
CommentEnd ==
    Min({j \in (Len(CommentOpen) + 3)..Len(src) :
            src[j] = ">" /\ src[j - 1] = "-" /\ src[j - 2] = "-"})

\* C8: the first call on a source that starts with <!-- returns the bytes up
\* to the first > that follows -- beyond the opening <!--, whatever <, > and "
\* lie before it, and Token returns them as one non-tag token; the scan of
\* the second call starts right after that -->.
C8_CommentEnd ==
    /\ calls = 1
         => /\ ~res.panic
            /\ IsNil(res.err)
            /\ res.raw = SubSeq(src, 1, CommentEnd)
            /\ res.op = "Token" => res.token = NonTag(SubSeq(src, 1, CommentEnd))
    /\ calls = 2 => res.from = CommentEnd

---------------------------------------------------------------------------
(* Processing instructions *)

\* the bytes of a processing instruction's body
PIBytes == {"p", "?", ">", "<", "\""}

\* the longest body
MaxPI == 3

PIBodies == UNION {[1..k -> PIBytes] : k \in 0..MaxPI}

\* what follows the processing instruction: nothing, or a tag
AfterPI == {<<>>, <<"<", "r", "/", ">">>}

PIInit ==
    \E body \in PIBodies, after \in AfterPI, rs \in ReadSizes :
        New(<<"<", "?">> \o body \o <<"?", ">">> \o after, "EOF", rs, 0)

SpecPI == PIInit /\ [][Next]_vars

\* number of bytes of the processing instruction the source starts with: up
\* to the first > that follows a ?
PIEnd == Min({j \in 2..Len(src) : src[j] = ">" /\ src[j - 1] = "?"})

\* C9: the first call on a source that starts with <? returns the bytes up to
\* the first > that follows a ?, whatever <, > and " lie before it, and Token
\* returns them as one non-tag token; the scan of the second call starts
\* right after them.
C9_PIEnd ==
    /\ calls = 1
         => /\ ~res.panic
            /\ IsNil(res.err)
            /\ res.raw = SubSeq(src, 1, PIEnd)
            /\ res.op = "Token" => res.token = NonTag(SubSeq(src, 1, PIEnd))
    /\ calls = 2 => res.from = PIEnd

\* the first call has returned a processing instruction that holds an
\* unbalanced ", a > and a <
C9_Witness ==
    /\ calls = 1 /\ IsNil(res.err)
    /\ res.raw = <<"<", "?", "\"", ">", "<", "?", ">">>
    /\ Len(src) > Len(res.raw)

---------------------------------------------------------------------------
(* The buffer limit *)

RECURSIVE Unlimited(_)
\* a tokenizer with the same read buffer size and the default buffer limit
\* on the same source, after k calls of RawToken
Unlimited(k) ==
    IF k = 0 THEN NewTok(options.readBufferSize, 0)
    ELSE RawToken(Unlimited(k - 1)).t

\* the outcome whole of the call of RawToken that scans a token without
\* hitting the limit, against what the call under the limit returned
WithinLimit(whole) ==
    /\ (IsNil(res.err) /\ res.raw # <<>>) => res.raw = whole.bytes
    /\ (IsNil(whole.err) /\ whole.end - whole.beg > options.autoGrowBufferMaxLimitSize)
           => res.err.kind = "BufLimit"

\* C10: a call whose token needs more bytes than the buffer limit returns
\* the buffer-limit error, and no call returns with a nil error a span other
\* than the whole span (the one a tokenizer with the default limit returns),
\* or panics.
C10_LimitOrWhole ==
    calls >= 1 => (~res.panic /\ WithinLimit(RawToken(Unlimited(calls - 1))))

---------------------------------------------------------------------------
(* Non-tag constructs *)

\* the span the last call returned starts with <? or <!
NonTagSpan ==
    Len(res.raw) >= 2 /\ res.raw[1] = "<" /\ res.raw[2] \in {"?", "!"}

\* C11: when the span Token decomposes starts with <? or <!, the token has no
\* name, no attributes, IsEndElement false, SelfClosing true, and its Data
\* is the whole span, which is the bytes of the source from the < on,
\* delimiters included.
C11_NonTagToken ==
    (res.op = "Token" /\ ~res.panic /\ IsNil(res.err) /\ NonTagSpan)
        => /\ res.token = NonTag(res.raw)
           /\ res.token.Data = SubSeq(src, res.beg + 1, res.end)

\* Token has returned a comment that a tag follows
C11_Witness ==
    /\ res.op = "Token" /\ IsNil(res.err) /\ calls = 1
    /\ res.token.Data = <<"<", "!", "-", "-", "c", "-", "-", ">">>
    /\ Len(src) > res.end

---------------------------------------------------------------------------
(* Leaf elements whose character data is a CDATA section *)

\* the bytes of a CDATA payload
PayloadBytes == {"x", "<", ">", "]"}

\* the longest payload
MaxPayload == 3

\* payloads: a payload ends at the first ]]>, so it holds none
Payloads ==
    {s \in UNION {[1..k -> PayloadBytes] : k \in 0..MaxPayload} :
        \A i \in 1..(Len(s) - 2) : SubSeq(s, i, i + 2) # CDataSuffix}

\* the whitespace before and after the section
Blanks == {<<>>, <<"\n", "\t">>, <<" ", "\r", "\n">>}

CDataLeaf(name, pre, payload, post) ==
    <<"<">> \o name \o <<">">> \o pre \o CDataPrefix \o payload \o CDataSuffix
        \o post \o <<"<", "/">> \o name \o <<">">>

CDataInit ==
    \E name \in LeafNames, pre \in Blanks, payload \in Payloads, post \in Blanks,
       rs \in ReadSizes :
        New(CDataLeaf(name, pre, payload, post), "EOF", rs, 0)

SpecCData == CDataInit /\ [][Next]_vars

\* index in the source of the < that opens the section, and of the > that
\* closes it: the first ]]> beyond the opening
SectionOpen == Min({i \in 2..Len(src) : src[i] = "<"})
SectionClose ==
    Min({j \in (SectionOpen + Len(CDataPrefix) + 2)..Len(src) :
            SubSeq(src, j - 2, j) = CDataSuffix})
Payload == SubSeq(src, SectionOpen + Len(CDataPrefix), SectionClose - 3)

---------------------------------------------------------------------------
(* Attributes separated by whitespace *)

\* the whitespace between the tag name and an attribute or between two attributes
Separators ==
    { <<" ">>, <<"\t">>, <<"\n">>, <<"\r">>, <<"\r", "\n">>, <<" ", "\n">> }

\* attribute values: any bytes among x, =, / and >
QuotedValues == UNION {[1..k -> {"x", "=", "/", ">"}] : k \in 0..MaxValue}

AttrNames == {<<"b">>, <<"p", ":", "c">>}

\* sep name="value"
WrittenAttr(sep, name, value) == sep \o name \o <<"=", "\"">> \o value \o <<"\"">>

\* the end of the tag
Closers == {<<">">>, <<"/", ">">>}

\* tags <a sep name="value" [sep name="value"] > (two values: the first
\* one of = and /, the second of at most one byte)
SeparatedTags ==
    {<<"<", "a">> \o WrittenAttr(s1, n1, v1) \o c :
        s1 \in Separators, n1 \in AttrNames, v1 \in QuotedValues, c \in Closers}
    \cup
    {<<"<", "a">> \o WrittenAttr(s1, <<"b">>, v1) \o WrittenAttr(s2, <<"p", ":", "c">>, v2) \o c :
        s1 \in Separators, v1 \in {<<"=">>, <<"/">>},
        s2 \in Separators, v2 \in {v \in QuotedValues : Len(v) <= 1}, c \in Closers}

SeparatedInit ==
    \E tag \in SeparatedTags, rs \in ReadSizes : New(tag, "EOF", rs, 0)

SpecSeparated == SeparatedInit /\ [][Next]_vars

RECURSIVE WrittenAttrs(_)
\* the attributes written in s, the bytes of a tag after its name: each name
\* is the bytes between the whitespace and the =, each value the bytes
\* between the two double quotes that follow
WrittenAttrs(s) ==
    IF s = <<>> THEN <<>>
    ELSE IF s[1] \in WS THEN WrittenAttrs(Tail(s))
    ELSE IF s[1] \in {">", "/"} THEN <<>>
    ELSE LET eq == IndexByte(s, "=")
             rest == From(s, eq + 2)
             q == IndexByte(rest, "\"")
         IN  <<[Name |-> SplitName(Slice(s, 0, eq)), Value |-> Slice(rest, 0, q)]>>
                 \o WrittenAttrs(From(rest, q + 1))

\* C13: Token on a tag whose attributes are written name="value" with
\* whitespace (space, tab, CR, LF) before each returns the attributes in
\* source order, each name the bytes before its = without the whitespace,
\* each value the bytes between its double quotes, whatever =, / and > the
\* value holds.
C13_SeparatedAttrs ==
    (calls = 1 /\ res.op = "Token")
        => /\ ~res.panic
           /\ IsNil(res.err)
           /\ res.token.Name = SplitName(<<"a">>)
           /\ res.token.Attrs = WrittenAttrs(From(src, 2))

---------------------------------------------------------------------------
(* Inputs made of constructs only *)

\* tags
Tags ==
    { <<"<", "a", ">">>,
      <<"<", "/", "a", ">">>,
      <<"<", "a", "/", ">">>,
      <<"<", "a", " ", "b", "=", "\"", ">", "\"", ">">> }

\* comments: <!--body--> with no --> before the last one
Comments ==
    {c \in {CommentOpen \o body \o CommentClose : body \in Bodies} :
        \A j \in (Len(CommentOpen) + 3)..(Len(c) - 1) :
            ~(c[j] = ">" /\ c[j - 1] = "-" /\ c[j - 2] = "-")}

\* processing instructions: <?body?> with no ?> before the last one
Instructions ==
    {c \in {<<"<", "?">> \o body \o <<"?", ">">> : body \in PIBodies} :
        \A j \in 3..(Len(c) - 1) : ~(c[j] = ">" /\ c[j - 1] = "?")}

\* tags, comments, processing instructions and <! declarations, plain and
\* with nested constructs
Constructs ==
    Tags \cup Comments \cup Instructions \cup Declarations
        \cup {<<"<", "!", "D", " ", "d", ">">>}

\* the constructs that follow the first one
Followers ==
    { <<>>,
      <<"<", "a", "/", ">">>,
      <<"<", "a", ">", "<", "/", "a", ">">>,
      <<"<", "!", "-", "-", "c", "-", "-", ">", "<", "a", ">">>,
      <<"<", "?", "p", "?", ">", "<", "!", "D", " ", "d", ">">> }

ConstructsInit ==
    \E c \in Constructs, f \in Followers, rs \in ReadSizes :
        New(c \o f, "EOF", rs, 0)

SpecConstructs == ConstructsInit /\ [][Next]_vars

\* C14: on an input made of constructs only, each call returns one
\* construct, the bytes of the source from the end of the span before it on,
\* and EOF comes when the spans returned make up the whole input.
C14_RoundTrip ==
    [][calls' = calls + 1
         => /\ ~res'.panic
            /\ IsNil(res'.err)
                 => /\ res'.beg = delivered
                    /\ res'.raw = SubSeq(src, delivered + 1, res'.end)
                    /\ res'.raw \in Constructs
            /\ ~IsNil(res'.err)
                 => /\ res'.err = Err("EOF")
                    /\ delivered = Len(src)]_vars

---------------------------------------------------------------------------
(* Options: New and Reset with any option values *)

\* a tokenizer is Reset at most this many times
MaxResets == 1

\* the values handed to WithReadBufferSize, WithAutoGrowBufferMaxLimitSize
\* and WithAttrBufferSize: negative, zero and positive ones, read sizes below
\* and above the limit
OptionValues ==
    { [rs |-> -1, ml |-> -1, as |-> -1],
      [rs |-> 0, ml |-> 0, as |-> 0],
      [rs |-> 1, ml |-> 3, as |-> 1],
      [rs |-> 8, ml |-> 3, as |-> -1],
      [rs |-> 3, ml |-> 0, as |-> 2],
      [rs |-> 8, ml |-> 6, as |-> 0] }

\* the sources the tokenizer is bound to
ResetInputs ==
    { <<"<", "a", "/", ">">>,
      <<"<", "a", " ", "b", "=", "\"", "1", "\"", " ", "c", "=", "\"", "2", "\"", " ",
        "d", "=", "\"", "3", "\"", ">", "t">> }

\* Reset(r, opts...) on a reader that delivers input and then EOF
CallReset ==
    /\ ~crashed
    /\ given.resets < MaxResets
    /\ \E input \in ResetInputs, o \in OptionValues :
        LET rs == o.rs
            ml == o.ml
            as == o.as
        IN
          /\ src' = input
          /\ srcEnd' = "EOF"
          /\ rpos' = 0
          /\ reads' = 0
          /\ err' = NoErr
          /\ n' = 0
          /\ cur' = 0
          /\ options' = ResetOptions(rs, ml, as)
          /\ token' = [token EXCEPT !.Attrs =
                          ResetAttrs(@, attrsCap, WithAttrBufferSize(as)).attrs]
          /\ attrsCap' = ResetAttrs(token.Attrs, attrsCap, WithAttrBufferSize(as)).cap
          /\ arr' = ResetBuf(arr, WithReadBufferSize(rs)).arr
          /\ len' = ResetBuf(arr, WithReadBufferSize(rs)).len
          /\ given' = Given(given.resets + 1, rs, ml, as)
    /\ prevErr' = NoErr
    /\ delivered' = 0
    /\ res' = NoResult
    /\ since' = 0
    /\ ended' = ~IsNil(res.err)
    /\ allTok' = TRUE
    /\ UNCHANGED <<calls, scan, crashed>>

NextReset == CallRawToken \/ CallToken \/ CallReset

OptionsInit ==
    \E input \in ResetInputs, o \in OptionValues :
        NewWith(input, "EOF", o.rs, o.ml, o.as)

SpecOptions == OptionsInit /\ [][NextReset]_vars

\* the ceiling asked for: the default for a non-positive value
AskedLimit == IF given.ml <= 0 THEN autoGrowBufferMaxLimitSize ELSE given.ml

---------------------------------------------------------------------------
(* Positions.  src/tokenizer.go stamps no positions; the tests expect a    *)
(* Begin and an End on every token (src/unnamed/part_001, lines 22-27 and  *)
(* 54-150): Begin is the position of the token's first byte and End the    *)
(* position after the last byte of its span.                               *)

\* Begin.Offset and End.Offset of the token of the result r
BeginOffset(r) == r.beg
EndOffset(r) == r.beg + Len(r.raw)

\* the constructs of a stream and the bytes between them
StreamItems ==
    { <<"<", "a", ">">>,
      <<"<", "/", "a", ">">>,
      <<"<", "a", "/", ">">>,
      <<"<", "a", ">", "t">>,
      <<"<", "?", "p", "?", ">">>,
      <<"<", "!", "-", "-", "c", "-", "-", ">">> }

Gaps == {<<>>, <<"\n">>, <<" ", "\t">>}

Streams ==
    {c1 \o g1 \o c2 \o g2 \o c3 :
        c1 \in StreamItems, g1 \in Gaps, c2 \in StreamItems, g2 \in Gaps,
        c3 \in StreamItems}

StreamInit == \E s \in Streams, rs \in ReadSizes : New(s, "EOF", rs, 0)

SpecStream == StreamInit /\ [][Next]_vars

\* the last call and the one before it were calls of Token that returned tokens
TwoTokens ==
    /\ allTok' /\ calls' = calls + 1
    /\ res.op = "Token" /\ IsNil(res.err)
    /\ IsNil(res'.err) /\ ~res'.panic

\* C16: for every token Begin.Offset <= End.Offset, and the Begin.Offset of
\* each token equals the End.Offset of the token before it.
C16_NoGaps ==
    [][TwoTokens
         => /\ BeginOffset(res') <= EndOffset(res')
            /\ BeginOffset(res') = EndOffset(res)]_vars

\* C16 as amended: for every token Begin.Offset <= End.Offset, and the
\* Begin.Offset of each token is at or after the End.Offset of the token
\* before it; the bytes between the two, if any, hold no <.
C16_NoOverlaps ==
    [][TwoTokens
         => /\ BeginOffset(res') <= EndOffset(res')
            /\ BeginOffset(res') >= EndOffset(res)
            /\ \A i \in (EndOffset(res) + 1)..BeginOffset(res') : src[i] # "<"]_vars

\* Token has returned a third token, which starts after bytes that belong
\* to no token
C16_Witness ==
    /\ allTok /\ calls = 3 /\ res.op = "Token" /\ IsNil(res.err)
    /\ BeginOffset(res) = 9
    /\ src[9] = "\t"
    /\ EndOffset(res) = Len(src)

---------------------------------------------------------------------------
(* Errors of RawToken in Token *)

\* C17: when the call of RawToken inside Token returns an error other than
\* EOF, with or without bytes, Token returns that error wrapped with the
\* byte position t.n, and no token, without decomposing anything.
C17_ErrorNoToken ==
    (res.op = "Token" /\ res.rawErr.kind \notin {"nil", "EOF"})
        => /\ ~res.panic
           /\ res.err = Wrap(res.rawErr, n)
           /\ res.token = ZeroToken

---------------------------------------------------------------------------
(* Character data after any construct *)

\* the construct the source starts with
FirstItems ==
    { <<"<", "a", ">">>,
      <<"<", "/", "a", ">">>,
      <<"<", "a", "/", ">">>,
      <<"<", "a", " ", "b", "=", "\"", "c", "\"", ">">>,
      <<"<", "a", " ", "b", "=", "\"", "c", "\"", "/", ">">>,
      <<"<", "/", "p", ":", "n", " ", ">">>,
      <<"<", "?", "p", "?", ">">>,
      <<"<", "!", "-", "-", "c", "-", "-", ">">> }

\* the character data after it
TextsAfter == {<<>>, <<"t">>, <<" ", "\n">>, <<" ", "t", "u", "\n">>}

\* what follows the character data
NextItems == {<<>>, <<"<", "/", "a", ">">>, <<"<", "b", ">", "u">>}

MixedInit ==
    \E c \in FirstItems, text \in TextsAfter, next \in NextItems, rs \in ReadSizes :
        New(c \o text \o next, "EOF", rs, 0)

SpecMixed == MixedInit /\ [][Next]_vars

\* C18: a token with IsEndElement has no attributes and no Data, and a token
\* has Data only if it is the token of a start tag (neither an end tag nor
\* self-closing) or of a <? or <! construct: the character data after an
\* end tag or a self-closing tag is not in that tag's token.
C18_DataOnlyForLeaf ==
    (res.op = "Token" /\ IsNil(res.err) /\ ~res.panic)
        => /\ res.token.IsEndElement
                => (res.token.Attrs = <<>> /\ res.token.Data = <<>>)
           /\ res.token.Data # <<>>
                => \/ NonTagSpan
                   \/ (~res.token.IsEndElement /\ ~res.token.SelfClosing)

---------------------------------------------------------------------------
(* The buffer length *)

\* C19: in every reachable state len(t.buf) is at most the maximum buffer
\* size of the options: no refill makes the buffer longer than that.
C19_LenWithinLimit == len <= options.autoGrowBufferMaxLimitSize

---------------------------------------------------------------------------
(* Character data with a CDATA section in it *)

\* the character data before and after the section
TextsAround == {<<>>, <<"t">>, <<" ", "u">>, <<"\n">>}

SectionPayloads == {<<>>, <<"x">>, <<"<", "x", ">">>}

\* <a> before <![CDATA[payload]]> after </a>
WithSection(before, payload, after) ==
    <<"<", "a", ">">> \o before \o CDataPrefix \o payload \o CDataSuffix \o after
        \o <<"<", "/", "a", ">">>

SectionInit ==
    \E before \in TextsAround, payload \in SectionPayloads, after \in TextsAround,
       rs \in ReadSizes :
        New(WithSection(before, payload, after), "EOF", rs, 0)

SpecSection == SectionInit /\ [][Next]_vars

\* number of bytes of the source before its end tag </a>
BeforeEndTag == Len(src) - 4

\* C20: on <a> before <![CDATA[payload]]> after </a> the first call returns
\* the span from <a> up to the end tag (trimmed at its end, as spans are),
\* the section and the character data after it included, and the second
\* call returns the end tag.
C20_SectionInSpan ==
    /\ ~res.panic
    /\ calls = 1
         => /\ IsNil(res.err)
            /\ res.raw = TrimRight(SubSeq(src, 1, BeforeEndTag))
    /\ calls = 2
         => /\ IsNil(res.err)
            /\ res.raw = <<"<", "/", "a", ">">>

---------------------------------------------------------------------------
(* The last-error field *)

\* C21: in every reachable state the last-error field t.err is unset or holds
\* an error other than plain EOF: plain end-of-stream is not recorded in it.
C21_EOFNotRecorded == err.kind # "EOF"

---------------------------------------------------------------------------
(* Whitespace at the edges of spans and of Data *)

\* the whitespace the trimming knows: space, tab, LF and CRLF
BlankUnits == {<<" ">>, <<"\t">>, <<"\n">>, <<"\r", "\n">>}

\* the largest number of them at the end of the character data
MaxBlank == 3

RECURSIVE BlankRuns(_)
\* the runs of at most k of them
BlankRuns(k) ==
    IF k = 0 THEN {<<>>}
    ELSE BlankRuns(k - 1) \cup {u \o r : u \in BlankUnits, r \in BlankRuns(k - 1)}

\* the construct the source starts with: tags and <? and <! constructs
\* with whitespace inside their delimiters
EdgeItems ==
    { <<"<", "a", ">">>,
      <<"<", "a", " ", "b", "=", "\"", "c", "\"", ">">>,
      <<"<", "?", " ", "p", "\n", "?", ">">>,
      <<"<", "!", "-", "-", "\t", "c", " ", "-", "-", ">">> }

\* the character data between the whitespace
EdgeTexts == {<<>>, <<"t">>}

EdgesInit ==
    \E c \in EdgeItems, pre \in BlankRuns(1), text \in EdgeTexts,
       post \in BlankRuns(MaxBlank), rs \in {1, 8} :
        New(c \o pre \o text \o post \o <<"<", "/", "a", ">">>, "EOF", rs, 0)

SpecEdges == EdgesInit /\ [][Next]_vars

\* s neither begins nor ends with space, tab, LF or CRLF
NoEdgeBlank(s) == TrimLeft(s) = s /\ TrimRight(s) = s

\* C22: the span returned for an ordinary tag, with or without text after
\* it, and the Data of every token neither begin nor end with space, tab, LF
\* or CRLF, however many of them stand at the edges; the span of a <? or <!
\* construct is the bytes of the source, unmodified.
C22_TrimmedEdges ==
    (res.op # "none" /\ ~res.panic /\ IsNil(res.err))
        => /\ NonTagSpan => res.raw = SubSeq(src, res.beg + 1, res.end)
           /\ ~NonTagSpan => NoEdgeBlank(res.raw)
           /\ res.op = "Token" => NoEdgeBlank(res.token.Data)

---------------------------------------------------------------------------
(* Self-closing tags *)

\* attribute values with / in them, as the last byte too, and >
SlashValues == UNION {[1..k -> {"x", "/", ">"}] : k \in 0..MaxValue}

\* the attributes of the tag: none, one, or two
SlashAttrs ==
    {<<>>}
    \cup {WrittenAttr(<<" ">>, <<"b">>, v) : v \in SlashValues}
    \cup {WrittenAttr(<<" ">>, <<"b">>, v) \o WrittenAttr(<<"\t">>, <<"c">>, <<"/">>) :
            v \in {<<>>, <<"/">>, <<"/", ">">>}}

\* the whitespace before the end of the tag
SlashGaps == {<<>>, <<" ">>, <<"\t">>, <<"\n">>}

\* the end of the tag: >, /> and / >
SlashClosers == {<<">">>, <<"/", ">">>, <<"/", " ", ">">>}

SlashInit ==
    \E as \in SlashAttrs, gap \in SlashGaps, c \in SlashClosers, after \in AfterTag,
       rs \in ReadSizes :
        New(<<"<", "a">> \o as \o gap \o c \o after, "EOF", rs, 0)

SpecSlash == SlashInit /\ [][Next]_vars

RECURSIVE TagCloseFrom(_, _, _)
\* index in s of the first > at or after index i that is outside the double
\* quotes (quoted: index i is inside a quoted value)
TagCloseFrom(s, i, quoted) ==
    IF s[i] = "\"" THEN TagCloseFrom(s, i + 1, ~quoted)
    ELSE IF s[i] = ">" /\ ~quoted THEN i
    ELSE TagCloseFrom(s, i + 1, quoted)

\* index in the source of the > that closes the tag the source starts with
TagClose == TagCloseFrom(src, 1, FALSE)

\* C23: Token on an ordinary tag sets SelfClosing exactly when the > that
\* closes the tag is immediately preceded by a / outside the quoted values:
\* a / inside a value, as its last byte too, does not set it.
C23_SelfClosing ==
    (calls = 1 /\ res.op = "Token")
        => /\ ~res.panic
           /\ IsNil(res.err)
           /\ res.token.SelfClosing <=> (src[TagClose - 1] = "/")

\* Token has returned a tag that is not self-closing and whose last value
\* ends with /
C23_Witness ==
    /\ calls = 1 /\ res.op = "Token" /\ IsNil(res.err)
    /\ ~res.token.SelfClosing
    /\ Len(res.token.Attrs) = 2
    /\ res.token.Attrs[1].Value = <<"/", ">">>
    /\ res.token.Attrs[2].Value = <<"/">>
    /\ src[TagClose - 1] = "\""

---------------------------------------------------------------------------
(* Token and RawToken called in any order *)

RECURSIVE RawOnly(_)
\* a tokenizer made with the same options on the same source, after k calls
\* of RawToken and none of Token
RawOnly(k) ==
    IF k = 0 THEN NewTokWith(given.rs, given.ml, given.as)
    ELSE RawToken(RawOnly(k - 1)).t

\* the result r of a call, of Token or of RawToken, has the span, the offsets
\* and the kind of error of the outcome ref of RawToken
SameSpan(ref, r) ==
    /\ ~r.panic
    /\ r.raw = ref.bytes
    /\ r.err.kind = ref.err.kind
    /\ r.raw # <<>> => (r.beg = ref.beg /\ r.end = ref.end)

\* C24: whatever the order of the calls of Token and RawToken, the span of
\* the k-th call is the span of the k-th call of a tokenizer on which only
\* RawToken is called, and the spans come in stream order, each construct
\* once: a span starts at or after the end of the one before it, and no <
\* lies between the two.
C24_SharedCursor ==
    [][calls' = calls + 1
         => /\ SameSpan(RawToken(RawOnly(calls)), res')
            /\ (IsNil(res'.err) /\ res'.raw # <<>>)
                 => /\ res'.beg >= delivered
                    /\ \A i \in (delivered + 1)..res'.beg : src[i] # "<"]_vars

\* Token has returned the third construct of a stream, after whitespace, on
\* a tokenizer on which RawToken has been called too
C24_Witness ==
    /\ calls = 3 /\ ~allTok /\ res.op = "Token" /\ IsNil(res.err)
    /\ res.token.Data = <<"t">>
    /\ delivered = Len(src)
    /\ src[res.beg] = "\n"

---------------------------------------------------------------------------
(* Names with colons *)

\* the longest name
MaxName == 3

\* names: any bytes among p and :, so with no colon, one (first, last or in
\* the middle) or several
ColonNames == UNION {[1..k -> {"p", ":"}] : k \in 1..MaxName}

\* the attribute names of a tag: none, one, or one and a second
NameLists ==
    {<<>>} \cup {<<m>> : m \in ColonNames}
        \cup {<<m, k>> : m \in {<<"p">>, <<":", "p">>, <<"p", ":", ":">>}, k \in ColonNames}

RECURSIVE NamedAttrs(_)
\* the bytes  name="v"  of each name of the list, a space before each
NamedAttrs(ms) ==
    IF ms = <<>> THEN <<>>
    ELSE WrittenAttr(<<" ">>, ms[1], <<"v">>) \o NamedAttrs(Tail(ms))

\* the tag of the kind ("start", "end" or "self") with the name and the
\* attribute names
NamedTag(kind, name, ms) ==
    (IF kind = "end" THEN <<"<", "/">> ELSE <<"<">>) \o name \o NamedAttrs(ms)
        \o (IF kind = "self" THEN <<"/", ">">> ELSE <<">">>)

NamedTags ==
    {NamedTag(kind, name, ms) : kind \in {"start", "self"}, name \in ColonNames,
                                ms \in NameLists}
    \cup {NamedTag("end", name, <<>>) : name \in ColonNames}

NamesInit == \E tag \in NamedTags, rs \in ReadSizes : New(tag, "EOF", rs, 0)

SpecNames == NamesInit /\ [][Next]_vars

\* the name as written, with the bytes before its first colon and the bytes
\* after it
ByFirstColon(name) ==
    LET colons == {i \in 1..Len(name) : name[i] = ":"}
    IN  IF colons = {}
        THEN [Prefix |-> <<>>, Local |-> name, Full |-> name]
        ELSE [Prefix |-> SubSeq(name, 1, Min(colons) - 1),
              Local |-> SubSeq(name, Min(colons) + 1, Len(name)),
              Full |-> name]

\* the token of NamedTag(kind, name, ms)
NamedToken(kind, name, ms) ==
    [Name |-> ByFirstColon(name),
     Attrs |-> [i \in 1..Len(ms) |-> [Name |-> ByFirstColon(ms[i]), Value |-> <<"v">>]],
     Data |-> <<>>,
     SelfClosing |-> kind = "self",
     IsEndElement |-> kind = "end"]

\* the kind of the tag the source is
WrittenKind ==
    IF src[2] = "/" THEN "end" ELSE IF src[Len(src) - 1] = "/" THEN "self" ELSE "start"

\* the tag name as written in the source: the bytes after < or </ up to the
\* first space, / or >
WrittenName ==
    LET first == IF src[2] = "/" THEN 3 ELSE 2
    IN  SubSeq(src, first,
               Min({i \in first..Len(src) : src[i] \in {" ", "/", ">"}}) - 1)

RECURSIVE WrittenNames(_)
\* the attribute names as written in s, the bytes of the tag after its name:
\* the bytes between a space and the = of  name="v"
WrittenNames(s) ==
    IF s = <<>> \/ s[1] \in {"/", ">"} THEN <<>>
    ELSE IF s[1] = " " THEN WrittenNames(Tail(s))
    ELSE <<Slice(s, 0, IndexByte(s, "="))>> \o WrittenNames(From(s, IndexByte(s, "=") + 4))

\* C25: for the name of a tag and of each of its attributes, Full is the name
\* as written, and with a colon in it Prefix is the bytes before the first
\* colon and Local the bytes after it; without, Prefix is empty and Local is
\* Full.
C25_NameSplit ==
    (calls = 1 /\ res.op = "Token")
        => /\ ~res.panic
           /\ IsNil(res.err)
           /\ res.token =
                NamedToken(WrittenKind, WrittenName,
                           WrittenNames(From(src, (IF src[2] = "/" THEN 2 ELSE 1)
                                                       + Len(WrittenName))))

\* Token has returned a self-closing tag whose name and attribute names hold
\* two colons each
C25_Witness ==
    /\ calls = 1 /\ res.op = "Token" /\ IsNil(res.err)
    /\ res.token.SelfClosing
    /\ res.token.Name.Full = <<"p", ":", ":">>
    /\ res.token.Name.Local = <<":">>
    /\ Len(res.token.Attrs) = 2
    /\ res.token.Attrs[2].Name.Prefix = <<>>
    /\ res.token.Attrs[2].Name.Full = <<":", "p", ":">>

---------------------------------------------------------------------------
(* Reset against New *)

RECURSIVE TokenOnly(_)
\* a tokenizer made by New with the same options on the same source, after
\* k calls of Token
TokenOnly(k) ==
    IF k = 0 THEN NewTokWith(given.rs, given.ml, given.as)
    ELSE Token(TokenOnly(k - 1)).t

\* C26: after Reset on a tokenizer that has processed another stream, to EOF
\* or to an error, each call returns what the same call returns on a tokenizer made by New over
\* the same source with the same options: the same span, offsets and kind of
\* error, and for calls of Token the same token and error.
C26_ResetAsNew ==
    (given.resets >= 1 /\ ended /\ since >= 1)
        => /\ SameSpan(RawToken(RawOnly(since - 1)), res)
           /\ allTok => SameResult(Token(TokenOnly(since - 1)), res)

---------------------------------------------------------------------------
(* Malformed inputs *)

\* tags with single-quoted and unquoted values, empty tags with and without
\* text, tags that are cut off, a nested declaration right before the >, and
\* well-formed constructs among them
MalformedInputs ==
    { <<"<", "a", " ", "b", "=", "'", "c", "'", ">">>,
      <<"<", "a", " ", "b", "=", "c", ">">>,
      <<"<", "a", " ", "b", "=", "'", "c", "'", " ", "d", "=", "\"", "e", "\"", ">">>,
      <<"<", ">">>,
      <<"<", ">", "t">>,
      <<"<", "/", ">", "t">>,
      <<"<", "a">>,
      <<"<", "a", " ", "b", "=">>,
      <<"<", "a", ">", "<", "b", "b", "b", "b", "b", "b">>,
      <<"<", "!", "D", "<", "!", "a", ">", ">">>,
      <<"<", "!", "D", " ", "<", "!", "a", ">", " ", ">">>,
      <<"<", "a", "/", ">", "t">> }

MalformedInit ==
    \E input \in MalformedInputs, ending \in {"EOF", "ReadErr"}, rs \in ReadSizes,
       ml \in MaxLimits :
        New(input, ending, rs, ml)

SpecMalformed == MalformedInit /\ [][Next]_vars

\* C27: whatever the input, well-formed or not, and the read size, every call
\* of Token and of RawToken returns: no index or slice goes out of range.
C27_NoPanic == ~res.panic

---------------------------------------------------------------------------
(* The cursor *)

\* 0 <= t.cur <= len(t.buf) <= cap(t.buf)
CursorInBuffer == 0 <= cur /\ cur <= len /\ len <= Len(arr)

\* the last call scanned a span and RawToken returned it with a nil error
SpanReturned ==
    res.op # "none" /\ ~res.panic /\ IsNil(res.rawErr) /\ res.raw # <<>>

\* the bytes of the buffer that end right before the cursor and are as many
\* as the span the last call scanned, before trimming
BeforeCursor == SubSeq(arr, cur - (res.end - res.beg) + 1, cur)

\* the span returned is the bytes before the cursor, less the whitespace
\* taken off their end
CursorPastSpan ==
    /\ res.end - res.beg <= cur
    /\ Len(res.raw) <= res.end - res.beg
    /\ res.raw = SubSeq(BeforeCursor, 1, Len(res.raw))
    /\ \A i \in (Len(res.raw) + 1)..(res.end - res.beg) : BeforeCursor[i] \in WS
    /\ cur + n - len = res.end

\* C28: in every reachable state 0 <= t.cur <= len(t.buf) <= cap(t.buf);
\* after a call whose RawToken returned a span with a nil error the cursor is
\* the index just past the bytes of the span before trimming, and the next
\* call starts its scan there, at the first byte not yet delivered.
C28_Cursor ==
    [][/\ CursorInBuffer /\ CursorInBuffer'
       /\ SpanReturned' => CursorPastSpan'
       /\ (SpanReturned /\ calls' = calls + 1)
            => (res'.from = res.end /\ res'.from = delivered)]_vars

\* the second call has returned a span that was moved to the front of the
\* buffer: the cursor is past it, at a lower index than its stream offset
C28_Witness ==
    /\ calls = 2 /\ SpanReturned /\ res.op = "RawToken"
    /\ res.raw = <<"<", "b", ">", "t", "t", "t", "t">>
    /\ cur = 7
    /\ res.end = 15
    /\ options.readBufferSize = 3

---------------------------------------------------------------------------
(* Termination.  A call is run one loop iteration at a time: the first    *)
(* loop of RawToken ("open"), its second loop ("close"), the outer loop of *)
(* parseCharData ("chars") and its inner loop ("cdata").                   *)

\* the call goes on from tokenizer t at position s
GoOn(t, s) ==
    /\ Install(t)
    /\ scan' = [s EXCEPT !.turn = 1 - scan.turn]
    /\ UNCHANGED <<res, delivered, prevErr, crashed, calls, since, allTok>>

\* RawToken returns with outcome o, and Token, if it is the call, goes on
\* from there (lines 122-149)
Finish(o) ==
    /\ \E out \in {IF scan.op = "Token" THEN TokenOf(o) ELSE RawOutcome(o)} :
          ReturnFrom(scan.op, out, ScanFrom(scan.at))
    /\ allTok' = (allTok /\ scan.op = "Token")
    /\ scan' = [scan EXCEPT !.pc = "idle", !.turn = 1 - scan.turn]

\* the client calls RawToken or Token: with an error recorded the call
\* returns at once (lines 117-119, 157-159)
BeginCall ==
    /\ scan.pc = "idle"
    /\ ~crashed
    /\ calls < MaxCalls
    /\ \E op \in {"RawToken", "Token"} :
          IF ~IsNil(err)
          THEN /\ \E out \in {IF op = "Token" THEN Token(Tok)
                                ELSE RawOutcome(RawToken(Tok))} : Return(op, out)
               /\ allTok' = (allTok /\ op = "Token")
               /\ scan' = [scan EXCEPT !.op = op, !.at = Tok, !.turn = 1 - scan.turn]
          ELSE GoOn(Tok, [scan EXCEPT !.pc = "open", !.op = op, !.at = Tok])
    /\ UNCHANGED <<src, srcEnd, options, given, ended>>

\* lines 165-170: after the refill r
OpenRefilled(r) ==
    IF IsNil(r.err) THEN GoOn(r.t, scan) ELSE \E o \in {NoBytes(r.t, r.t.err)} : Finish(o)

\* lines 163-173: with p the index of the < beyond the cursor
OpenAt(p) ==
    IF p # -1 THEN GoOn(Tok, [scan EXCEPT !.pc = "close", !.pivot = cur + p])
    ELSE \E r \in {Refill(Tok, cur)} : OpenRefilled(r)

\* one iteration of the first loop of RawToken
StepOpen ==
    /\ scan.pc = "open"
    /\ \E p \in {IndexByte(From(Buf(Tok), cur), "<")} : OpenAt(p)
    /\ UNCHANGED <<src, srcEnd, options, given, ended>>

\* lines 179-187: after the refill r
CloseRefilled(r) ==
    IF IsNil(r.err) THEN GoOn(r.t, [scan EXCEPT !.pivot = r.cur])
    ELSE \E o \in {findCloseRefilled(r)} : Finish(o)

\* lines 178-197: with pos the result of findTokenEnd(pivot)
CloseAt(pos) ==
    IF pos = PanicIdx THEN \E o \in {Panicked(Tok)} : Finish(o)
    ELSE IF pos = -1 THEN \E r \in {Refill(Tok, scan.pivot)} : CloseRefilled(r)
    ELSE IF B(Tok, scan.pivot + 1) \in {"?", "!"} THEN \E o \in {Found(Tok, scan.pivot, pos)} : Finish(o)
    ELSE GoOn(Tok, [scan EXCEPT !.pc = "chars", !.pos = pos, !.i = pos])

\* one iteration of the second loop of RawToken
StepClose ==
    /\ scan.pc = "close"
    /\ \E pos \in {findTokenEnd(Tok, scan.pivot)} : CloseAt(pos)
    /\ UNCHANGED <<src, srcEnd, options, given, ended>>

\* the scan that stays on a byte that is not <
CharsAtStay(t, pivot, pos, i) ==
    IF B(t, i) # "<"
    THEN GoOn(t, [scan EXCEPT !.pivot = pivot, !.pos = pos, !.i = i])
    ELSE GoOn(t, [scan EXCEPT !.pc = "cdata", !.pivot = pivot, !.pos = i - 1, !.i = i,
                              !.j = i + 1, !.k = 1])

\* lines 267-274: the byte at i
CharsAt(t, pivot, pos, i) ==
    IF B(t, i) # "<"
    THEN GoOn(t, [scan EXCEPT !.pivot = pivot, !.pos = pos, !.i = i + 1])
    ELSE GoOn(t, [scan EXCEPT !.pc = "cdata", !.pivot = pivot, !.pos = i - 1, !.i = i,
                              !.j = i + 1, !.k = 1])

\* lines 261-265: after the refill r
CharsRefilled(r) ==
    IF ~IsNil(r.err)
    THEN \E o \in {FoundCharData([t |-> r.t, pivot |-> r.cur, pos |-> r.last - 1])} :
            Finish(o)
    ELSE CharsAt(r.t, r.cur, r.last - 1, r.last)

\* one iteration of the outer loop of parseCharData
StepChars ==
    /\ scan.pc = "chars"
    /\ IF scan.i >= len THEN \E r \in {Refill(Tok, scan.pivot)} : CharsRefilled(r)
       ELSE CharsAt(Tok, scan.pivot, scan.pos, scan.i)
    /\ UNCHANGED <<src, srcEnd, options, given, ended>>

\* lines 287-297: the byte at j
CDataAt(t, pivot, pos, j) ==
    IF scan.k < Len(CDataPrefix)
    THEN IF B(t, j) # CDataPrefix[scan.k + 1]
         THEN \E o \in {FoundCharData([t |-> t, pivot |-> pivot, pos |-> pos])} :
                 Finish(o)
         ELSE GoOn(t, [scan EXCEPT !.pivot = pivot, !.pos = pos, !.j = j + 1,
                                   !.k = scan.k + 1])
    ELSE IF B(t, j) = ">" /\ Slice(Buf(t), j - 2, j + 1) = CDataSuffix
    THEN \E o \in {FoundCharData([t |-> t, pivot |-> pivot, pos |-> j])} : Finish(o)
    ELSE GoOn(t, [scan EXCEPT !.pivot = pivot, !.pos = pos, !.j = j + 1])

\* lines 280-285: after the refill r, with pos already moved back
CDataRefilled(r, pos) ==
    IF ~IsNil(r.err)
    THEN \E o \in {FoundCharData([t |-> [r.t EXCEPT !.err = IF ErrorsIs(r.err, "EOF")
                                                              THEN Err("UnexpectedEOF")
                                                              ELSE r.err],
                                    pivot |-> r.cur, pos |-> pos])} : Finish(o)
    ELSE CDataAt(r.t, r.cur, pos, r.last)

\* lines 277-280: after memmoveRemainingBytes
CDataMoved(mm, prevLast) ==
    \E r \in {RefillAfter(mm)} : CDataRefilled(r, scan.pos - (prevLast - mm.t.len))

\* one iteration of the inner loop of parseCharData
StepCData ==
    /\ scan.pc = "cdata"
    /\ IF scan.j >= len
       THEN \E mm \in {memmoveRemainingBytes(Tok, scan.pivot)} : CDataMoved(mm, len)
       ELSE CDataAt(Tok, scan.pivot, scan.pos, scan.j)
    /\ UNCHANGED <<src, srcEnd, options, given, ended>>

NextSteps == BeginCall \/ StepOpen \/ StepClose \/ StepChars \/ StepCData

\* sources that take the calls through every loop: character data without
\* and with a CDATA section, whole and cut off, tokens longer than the
\* buffer limit, no < at all, a CDATA section that begins in the buffer
\* behind a token already returned
StepInputs ==
    { <<"t", "<", "a", ">", "t", "<", "/", "a", ">">>,
      <<"<", "a", ">", "<", "!", "[", "C", "D", "A", "T", "A", "[", "x", "]", "]", ">",
        "<", "/", "a", ">">>,
      <<"<", "?", "p", "?", ">", "<", "!", "-", "-", "c", "-", "-", ">">>,
      <<"<", "b", ">", "t", "<">>,
      <<"<", "b", ">", "<", "!", "[", "C", "D", "A", "T">>,
      <<"<", "b", " ", "c", "=", "\"", ">">>,
      <<"<", "b", "b", "b", "b", "b", "b", ">">>,
      <<"t", "t", "t", "t", "t", "t", "t", "t">>,
      <<"<", "a", "/", ">", "<", "b", ">", "<", "!", "[", "C", "D", "A", "T", "A", "[",
        "x", "]", "]", ">">> }

StepsInit ==
    \E input \in StepInputs, ending \in {"EOF", "ReadErr"}, rs \in {1, 3, 4}, ml \in {0, 3} :
        New(input, ending, rs, ml)

\* a call is under way
Scanning == scan.pc # "idle"

\* the steps of a call under way
RunSteps == StepOpen \/ StepClose \/ StepChars \/ StepCData

\* a call that has started goes on, for the goroutine that called it runs:
\* this is WF_vars(RunSteps), written out with Scanning for
\* ENABLED <<RunSteps>>_vars, since a step of the call is possible exactly
\* while a call is under way. The client is not bound to call again.
SpecSteps ==
    /\ StepsInit
    /\ [][NextSteps]_vars
    /\ ([]<>(~Scanning) \/ []<><<RunSteps>>_vars)

\* the result of a call run step by step is the result of the call run at once
StepsAgree ==
    (scan.pc = "idle" /\ scan.op # "none")
        => LET o == IF scan.op = "Token" THEN Token(scan.at)
                    ELSE RawOutcome(RawToken(scan.at))
           IN  /\ Tok = o.t
               /\ res = [op |-> scan.op, raw |-> o.raw, rawErr |-> o.rawErr,
                         beg |-> o.beg, end |-> o.end, from |-> ScanFrom(scan.at),
                         token |-> o.token, err |-> o.err, panic |-> o.panic]

\* the largest of two numbers
Larger(a, b) == IF a >= b THEN a ELSE b

\* the finite bound of the buffer: the buffer limit or, if larger, the
\* capacity New gives the buffer
BufferBound ==
    Larger(options.autoGrowBufferMaxLimitSize,
           options.readBufferSize + defaultReadBufferSize)

\* this step refilled the buffer
Refills == reads' = reads + 1

\* a refill after which the call goes on adds at least one byte to the buffer
RefillAdds ==
    (Refills /\ Scanning')
        => /\ rpos' >= rpos + 1
           /\ n' = n + (rpos' - rpos)
           /\ \E kept \in 0..len : len' = kept + (rpos' - rpos)

\* an iteration of a loop of RawToken returns, refills or leaves the loop
\* for the next one
RawTokenLoop ==
    (scan.pc \in {"open", "close"} /\ scan' # scan)
        => (~Scanning' \/ Refills \/ scan'.pc # scan.pc)

\* an iteration of the character-data scan returns or refills
CharDataLoopRefills ==
    (scan.pc \in {"chars", "cdata"} /\ scan' # scan)
        => (~Scanning' \/ Refills)

\* an iteration of the character-data scan returns, refills or moves on by
\* one byte
CharDataLoopMoves ==
    (scan.pc \in {"chars", "cdata"} /\ scan' # scan)
        => \/ ~Scanning'
           \/ Refills
           \/ scan.pc = "chars" /\ scan'.pc = "chars" /\ scan'.i = scan.i + 1
           \/ scan.pc = "chars" /\ scan'.pc = "cdata" /\ scan'.j = scan.i + 1
           \/ scan.pc = "cdata" /\ scan'.pc = "cdata" /\ scan'.j = scan.j + 1

\* C29: every call of RawToken or Token that starts returns; a refill that
\* does not end the call adds at least one byte to the buffer, the buffer
\* does not grow beyond a finite bound, and each scan loop (the search for
\* <, the search for the token end, the character-data scan) returns or
\* refills on every iteration.
C29_ReturnsOrRefills ==
    /\ Scanning ~> ~Scanning
    /\ [](len <= Len(arr) /\ Len(arr) <= BufferBound)
    /\ [][RefillAdds /\ RawTokenLoop /\ CharDataLoopRefills]_vars

\* C29 as amended: the same, but an iteration of the character-data scan
\* that neither returns nor refills moves the scan on by one byte.
C29_Terminates ==
    /\ Scanning ~> ~Scanning
    /\ [](len <= Len(arr) /\ Len(arr) <= BufferBound)
    /\ [][RefillAdds /\ RawTokenLoop /\ CharDataLoopMoves]_vars

\* a call has returned a leaf with a CDATA section after five refills, one
\* byte each, that ran through the four loops
C29_Witness ==
    /\ ~Scanning /\ calls = 1 /\ IsNil(res.err)
    /\ options.readBufferSize = 1
    /\ res.end = 16
    /\ reads >= 16
    /\ Len(res.raw) = 16

(***************************************************************************)
(* Compaction                                                              *)
(***************************************************************************)

\* the stream offset of the byte at index x of the buffer, whose last byte
\* is the last byte read
StreamAt(x) == n - len + x

\* the index the running loop compacts from: the cursor in the search for <,
\* the start of the token in the other loops
CompactFrom == IF scan.pc = "open" THEN cur ELSE scan.pivot

\* this step of a call compacted the buffer and read into it
Compacts == Scanning /\ Refills

\* the bytes from the index p to the end of the buffer are at the front, in
\* order, and the bytes read follow them
KeptInOrder(p) ==
    /\ \A x \in 1..(len - p) : arr'[x] = arr[p + x]
    /\ len' = (len - p) + (rpos' - rpos)
    /\ \A x \in 1..(rpos' - rpos) : arr'[len - p + x] = src[rpos + x]

\* the indices of the call that goes on are those of the same stream bytes:
\* the start of the token, the end of the character data, and the scan
\* index, unless the iteration has moved it on by one byte
Rebased(p) ==
    /\ cur' = 0
    /\ scan'.pc # "open" =>
          /\ scan'.pivot = 0
          /\ n' - len' + scan'.pivot = StreamAt(p)
    /\ scan.pc = "chars" =>
          /\ scan'.pc = "chars" => n' - len' + scan'.i = StreamAt(scan.i) + 1
          /\ scan'.pc = "cdata" => /\ n' - len' + scan'.i = StreamAt(scan.i)
                                   /\ scan'.j = scan'.i + 1
                                   /\ scan'.pos = scan'.i - 1
    /\ scan.pc = "cdata" =>
          /\ scan'.pc = "cdata"
          /\ n' - len' + scan'.pos = StreamAt(scan.pos)
          /\ n' - len' + scan'.j = StreamAt(scan.j) + 1

\* from the start of the current token on, the buffer holds the bytes of
\* the stream, each once and in order, up to the last byte read
TokenBytesKept ==
    (Scanning /\ scan.pc # "open")
        => /\ scan.pivot < len
           /\ arr[scan.pivot + 1] = "<"
           /\ StreamAt(scan.pivot) >= 0
           /\ \A x \in (scan.pivot + 1)..len : arr[x] = src[StreamAt(x)]

\* C30: a compaction keeps exactly the bytes from pivot to the end of the
\* buffer, in order, at offsets 0 onward, and sets the cursor to 0; the
\* indices of the caller (pivot, pos, scan index) are re-based to the same
\* stream bytes, so that across a compaction and the refill after it no
\* byte at or after the start of the current token is lost or duplicated.
C30_Compaction ==
    /\ []TokenBytesKept
    /\ [][Compacts => /\ KeptInOrder(CompactFrom)
                      /\ Scanning' => Rebased(CompactFrom)]_vars

\* the scan of a CDATA section, in the second call, has compacted the
\* buffer from the start of the token <b> at index 4, behind the <a/>
\* already returned, and read four bytes: the token is at the front, the
\* character data ends at index 2 and the scan is past the ! at index 4
C30_Witness ==
    /\ scan.pc = "cdata" /\ calls = 1
    /\ options.readBufferSize = 4
    /\ scan.pivot = 0 /\ scan.pos = 2 /\ scan.j = 5
    /\ cur = 0 /\ len = 8 /\ n = 12
    /\ SubSeq(arr, 1, len) = <<"<", "b", ">", "<", "!", "[", "C", "D">>

===========================================================================
